---- MODULE Spec2Model ----
(***************************************************************************)
(* TemperatureFastCharger.ino: a NodeMCU firmware that polls a DHT11,      *)
(* derives a charging mode and a fan flag from two thresholds, drives two  *)
(* relays, refreshes an LCD and serves a JSON status over HTTP, all from   *)
(* one cooperative loop() gated by millis().                               *)
(*                                                                         *)
(* Representation.                                                         *)
(*  - A float is [nan, v] with v in hundredths of a unit (32.0 is 3200).   *)
(*  - An unsigned long is [hi, lo], two 16-bit limbs, so that the 32-bit   *)
(*    wraparound of millis() is the real one (2^32 itself does not fit a   *)
(*    TLC integer).                                                        *)
(*  - serial, response and fired hold what the latest step printed, sent   *)
(*    and ran; they are the observable trace of that step.                 *)
(***************************************************************************)
EXTENDS Integers, Sequences, FiniteSets, TLC

VARIABLES
    pc,               \* "boot", "wifi" (the wait loop of setup), "loop"
    millis,           \* the millisecond counter, an unsigned long
    wifiStart,        \* setup's local wifiStart
    wifi,             \* WiFi.status(): "IDLE", "DISCONNECTED", "CONNECTED"
    temperatureC,     \* float
    humidityPerc,     \* float
    lastSensorMillis, \* unsigned long
    lastLcdMillis,    \* unsigned long
    chargingMode,     \* String
    fanOn,            \* bool
    fastRelay,        \* level of FAST_RELAY_PIN: "INPUT" (not yet an output), "HIGH", "LOW"
    fanRelay,         \* level of FAN_RELAY_PIN
    lcd,              \* the two rows of the display
    serial,           \* the lines the latest step printed
    response,         \* the HTTP response the latest step sent
    fired,            \* the activities the latest step ran, in order
    everValid,        \* history: some poll has succeeded
    sinceSensor,      \* history: true time elapsed since lastSensorMillis was sampled
    sinceLcd,         \* history: true time elapsed since lastLcdMillis was sampled
    phase,            \* history: true time since the end of setup, modulo SENSOR_INTERVAL_MS
    assocPolls,       \* history: iterations of the wait loop so far
    steps,            \* history: clock advances made in the loop
    jumps,            \* history: long clock advances made in the loop
    health,           \* history: "failing" since a failed poll, "recovered" in the
                      \* step of a successful poll that followed a failed one, "ok"
                      \* otherwise
    call              \* history: the latest direct call of updateRelaysAndMode: its
                      \* argument, the outputs before it, whether it repeats the
                      \* argument of the call before

vars == <<pc, millis, wifiStart, wifi, temperatureC, humidityPerc, lastSensorMillis,
          lastLcdMillis, chargingMode, fanOn, fastRelay, fanRelay, lcd, serial,
          response, fired, everValid, sinceSensor, sinceLcd, phase, assocPolls,
          steps, jumps, health, call>>

(***************************************************************************)
(* Bounds of the model.                                                    *)
(***************************************************************************)
\* clock advances explored between ticks of loop()
MaxSteps == 3
\* advances of almost a whole clock period (the run up to the wraparound)
MaxJumps == 1
\* the long advance is one clock period minus this many milliseconds
JumpShort == 5000
\* iterations of the wait loop within which the network may associate
MaxAssocPolls == 1

(***************************************************************************)
(* unsigned long: 32 bits as two 16-bit limbs.                             *)
(***************************************************************************)
Limb == 65536

U32(n) == [hi |-> n \div Limb, lo |-> n % Limb]

Add32(a, b) ==
    LET lo == a.lo + b.lo
    IN  [hi |-> (a.hi + b.hi + (lo \div Limb)) % Limb, lo |-> lo % Limb]

\* TRUE iff a + b does not fit 32 bits
Carry32(a, b) == a.hi + b.hi + ((a.lo + b.lo) \div Limb) >= Limb

Sub32(a, b) ==
    LET lo == a.lo - b.lo
        borrow == IF lo < 0 THEN 1 ELSE 0
    IN  [hi |-> (a.hi - b.hi - borrow) % Limb, lo |-> lo % Limb]

GE32(a, b) == a.hi > b.hi \/ (a.hi = b.hi /\ a.lo >= b.lo)

LT32(a, b) == ~GE32(a, b)

\* a modulo m, for a small m
Mod32(a, m) == (((a.hi % m) * (Limb % m)) + a.lo) % m

(***************************************************************************)
(* float: NaN or a value in hundredths.                                    *)
(***************************************************************************)
NAN == [nan |-> TRUE, v |-> 0]

F(v) == [nan |-> FALSE, v |-> v]

isnan(x) == x.nan

\* x >= y of IEEE floats: false when either is NaN
FGe(x, y) == ~x.nan /\ ~y.nan /\ x.v >= y.v

(***************************************************************************)
(* Program constants.                                                      *)
(***************************************************************************)
FAN_ON_TEMP == 3200
SLOW_CHARGE_TEMP == 3500
SENSOR_INTERVAL_MS == 2000
LCD_REFRESH_MS == 1500
WIFI_TIMEOUT_MS == 15000
WIFI_POLL_MS == 500
SERIAL_DELAY_MS == 100
WELCOME_DELAY_MS == 1500
STATUS_SENTINEL == -99900

(***************************************************************************)
(* Number formatting: String(x, decimals) and printf("%.2f").              *)
(***************************************************************************)
Abs(n) == IF n < 0 THEN -n ELSE n

Sign(n) == IF n < 0 THEN "-" ELSE ""

Pad2(n) == IF n < 10 THEN "0" \o ToString(n) ELSE ToString(n)

\* a value in hundredths printed with two decimals
Fmt2(v) == Sign(v) \o ToString(Abs(v) \div 100) \o "." \o Pad2(Abs(v) % 100)

\* a value in hundredths printed with one decimal, rounded half away from zero
Fmt1(v) ==
    LET tenths == (Abs(v) + 5) \div 10
    IN  (IF tenths = 0 THEN "" ELSE Sign(v)) \o ToString(tenths \div 10) \o "."
            \o ToString(tenths % 10)

\* the elements of a sequence
Range(q) == {q[i] : i \in 1..Len(q)}

RECURSIVE Spaces(_)
Spaces(n) == IF n <= 0 THEN "" ELSE " " \o Spaces(n - 1)

(***************************************************************************)
(* The inputs of the model: what the sensor, the network and the clock     *)
(* can deliver.                                                            *)
(***************************************************************************)
\* temperatures around both thresholds, and the failed sample
Temps == {F(3190), F(3200), F(3499), F(3500), NAN}

Humidities == {F(4020), NAN}

\* what one read of the sensor can deliver: humidity and temperature
Samples == Humidities \X Temps

Requests == {"none", "/", "/status", "/favicon.ico"}

\* milliseconds that may pass between two ticks of loop()
ShortSteps == {U32(1), U32(500), U32(1499)}

\* one clock period less JumpShort milliseconds
LongStep == Sub32(U32(0), U32(JumpShort))

(***************************************************************************)
(* updateRelaysAndMode, readSensor.                                        *)
(***************************************************************************)
\* the fan rule stopping the fan again from the slow-charge threshold up
MutFanRuleBand(temp) ==
    ~isnan(temp) /\ temp.v >= FAN_ON_TEMP /\ temp.v < SLOW_CHARGE_TEMP

MutFanRule(temp) == ~isnan(temp) /\ temp.v > FAN_ON_TEMP
FanRule(temp) == ~isnan(temp) /\ FGe(temp, F(FAN_ON_TEMP))

MutSlowRule(temp) == ~isnan(temp) /\ temp.v > SLOW_CHARGE_TEMP
SlowRule(temp) == ~isnan(temp) /\ FGe(temp, F(SLOW_CHARGE_TEMP))

\* updateRelaysAndMode writing the fan relay from the fan flag of before the call
MutUpdateStaleFanFlag(temp) ==
    [fanRelay     |-> IF fanOn THEN "LOW" ELSE "HIGH",
     fanOn        |-> FanRule(temp),
     fastRelay    |-> IF SlowRule(temp) THEN "LOW" ELSE "HIGH",
     chargingMode |-> IF SlowRule(temp) THEN "Slow Charging" ELSE "Fast Charging"]

\* updateRelaysAndMode with a dead band: slow charging is left only below FAN_ON_TEMP
MutUpdateHysteresis(temp) ==
    LET slow == SlowRule(temp) \/ (chargingMode = "Slow Charging" /\ FanRule(temp))
    IN  [fanRelay     |-> IF FanRule(temp) THEN "LOW" ELSE "HIGH",
         fanOn        |-> FanRule(temp),
         fastRelay    |-> IF slow THEN "LOW" ELSE "HIGH",
         chargingMode |-> IF slow THEN "Slow Charging" ELSE "Fast Charging"]

\* updateRelaysAndMode returning at once on NaN
MutUpdateKeepOnNan(temp) ==
    IF isnan(temp)
    THEN [fanRelay |-> fanRelay, fanOn |-> fanOn, fastRelay |-> fastRelay,
          chargingMode |-> chargingMode]
    ELSE [fanRelay     |-> IF FanRule(temp) THEN "LOW" ELSE "HIGH",
          fanOn        |-> FanRule(temp),
          fastRelay    |-> IF SlowRule(temp) THEN "LOW" ELSE "HIGH",
          chargingMode |-> IF SlowRule(temp) THEN "Slow Charging" ELSE "Fast Charging"]

\* updateRelaysAndMode driving the fan relay active-high
MutUpdateFanActiveHigh(temp) ==
    [fanRelay     |-> IF FanRule(temp) THEN "HIGH" ELSE "LOW",
     fanOn        |-> FanRule(temp),
     fastRelay    |-> IF SlowRule(temp) THEN "LOW" ELSE "HIGH",
     chargingMode |-> IF SlowRule(temp) THEN "Slow Charging" ELSE "Fast Charging"]

\* the four outputs of updateRelaysAndMode(temp)
updateRelaysAndMode(temp) ==
    [fanRelay     |-> IF FanRule(temp) THEN "LOW" ELSE "HIGH",
     fanOn        |-> FanRule(temp),
     fastRelay    |-> IF SlowRule(temp) THEN "LOW" ELSE "HIGH",
     chargingMode |-> IF SlowRule(temp) THEN "Slow Charging" ELSE "Fast Charging"]

WarnLine == "[WARN] Failed to read from DHT sensor"

SensorLine(t, h) ==
    "[SENSOR] Temp: " \o Fmt2(t.v) \o " C, Humidity: " \o Fmt2(h.v) \o " %"

\* the state readSensor reads and writes
Current ==
    [temperatureC |-> temperatureC, humidityPerc |-> humidityPerc,
     chargingMode |-> chargingMode, fanOn |-> fanOn,
     fastRelay |-> fastRelay, fanRelay |-> fanRelay,
     everValid |-> everValid, serial |-> <<>>]

\* readSensor with the validity test after the call of updateRelaysAndMode
MutReadSensorLateCheck(h, t) ==
    LET u == updateRelaysAndMode(t)
    IN  IF isnan(h) \/ isnan(t)
        THEN [Current EXCEPT !.chargingMode = u.chargingMode, !.fanOn = u.fanOn,
                             !.fastRelay = u.fastRelay, !.fanRelay = u.fanRelay,
                             !.serial = <<WarnLine>>]
        ELSE [temperatureC |-> t, humidityPerc |-> h,
              chargingMode |-> u.chargingMode, fanOn |-> u.fanOn,
              fastRelay |-> u.fastRelay, fanRelay |-> u.fanRelay,
              everValid |-> TRUE, serial |-> <<SensorLine(t, h)>>]

\* readSensor without the call of updateRelaysAndMode
MutReadSensorNoUpdate(h, t) ==
    IF isnan(h) \/ isnan(t)
    THEN [Current EXCEPT !.serial = <<WarnLine>>]
    ELSE [Current EXCEPT !.temperatureC = t, !.humidityPerc = h, !.everValid = TRUE,
                         !.serial = <<SensorLine(t, h)>>]

\* readSensor calling updateRelaysAndMode before it stores the new temperature
MutReadSensorStale(h, t) ==
    IF isnan(h) \/ isnan(t)
    THEN [Current EXCEPT !.serial = <<WarnLine>>]
    ELSE LET u == updateRelaysAndMode(temperatureC)
         IN  [temperatureC |-> t, humidityPerc |-> h,
              chargingMode |-> u.chargingMode, fanOn |-> u.fanOn,
              fastRelay |-> u.fastRelay, fanRelay |-> u.fanRelay,
              everValid |-> TRUE, serial |-> <<SensorLine(t, h)>>]

\* readSensor() when the sensor delivers humidity h and temperature t
readSensor(h, t) ==
    IF isnan(h) \/ isnan(t)
    THEN [Current EXCEPT !.serial = <<WarnLine>>]
    ELSE LET u == updateRelaysAndMode(t)
         IN  [temperatureC |-> t, humidityPerc |-> h,
              chargingMode |-> u.chargingMode, fanOn |-> u.fanOn,
              fastRelay |-> u.fastRelay, fanRelay |-> u.fanRelay,
              everValid |-> TRUE, serial |-> <<SensorLine(t, h)>>]

(***************************************************************************)
(* The HTTP handlers.  A body is a sequence of strings: the keys and       *)
(* values of the JSON object in order, or the one line of a text body.     *)
(***************************************************************************)
NoResponse == [code |-> 0, type |-> "", location |-> "", body |-> <<>>]

handleRoot == [code |-> 302, type |-> "text/plain", location |-> "/status", body |-> <<>>]

handleNotFound ==
    [code |-> 404, type |-> "text/plain", location |-> "", body |-> <<"Not Found">>]

\* handleStatus without the isnan tests
MutHandleStatusNoSentinel ==
    [code |-> 200, type |-> "application/json", location |-> "",
     body |-> <<"temperature_C", Fmt2(temperatureC.v),
                "humidity_percent", Fmt2(humidityPerc.v),
                "charging_mode", chargingMode,
                "fan_on", IF fanOn THEN "true" ELSE "false">>]

handleStatus ==
    [code |-> 200, type |-> "application/json", location |-> "",
     body |-> <<"temperature_C",
                Fmt2(IF isnan(temperatureC) THEN STATUS_SENTINEL ELSE temperatureC.v),
                "humidity_percent",
                Fmt2(IF isnan(humidityPerc) THEN STATUS_SENTINEL ELSE humidityPerc.v),
                "charging_mode", chargingMode,
                "fan_on", IF fanOn THEN "true" ELSE "false">>]

\* server.handleClient() when request req is pending
handleClient(req) ==
    IF wifi # "CONNECTED" \/ req = "none" THEN NoResponse
    ELSE IF req = "/" THEN handleRoot
    ELSE IF req = "/status" THEN handleStatus
    ELSE handleNotFound

\* the value a JSON body gives key k
JsonField(body, k) ==
    body[(CHOOSE i \in 1..Len(body) : i % 2 = 1 /\ body[i] = k) + 1]

(***************************************************************************)
(* The display.                                                            *)
(***************************************************************************)
BlankLcd == [row0 |-> "", row1 |-> ""]

MODE_COLS == 13

ModeLen(m) == IF m = "Unknown" THEN 7 ELSE MODE_COLS

\* updateLCD() on state s
updateLCD(s) ==
    [row0 |-> IF isnan(s.temperatureC) THEN "Temp = --.- C"
              ELSE "Temp = " \o Fmt1(s.temperatureC.v) \o " C",
     row1 |-> s.chargingMode \o
              (IF s.fanOn THEN Spaces(MODE_COLS - ModeLen(s.chargingMode)) \o "F" ELSE "")]


(***************************************************************************)
(* The program: the globals as constructed, setup() in three steps (up to  *)
(* the wait loop, one iteration of the wait loop, the rest), and loop().   *)
(***************************************************************************)
NoCall == [made |-> FALSE, temp |-> NAN, before |-> <<>>, again |-> FALSE]

Init ==
    /\ pc = "boot"
    /\ millis = U32(0)
    /\ wifiStart = U32(0)
    /\ wifi = "IDLE"
    /\ temperatureC = NAN
    /\ humidityPerc = NAN
    /\ lastSensorMillis = U32(0)
    /\ lastLcdMillis = U32(0)
    /\ chargingMode = "Unknown"
    /\ fanOn = FALSE
    /\ fastRelay = "INPUT"
    /\ fanRelay = "INPUT"
    /\ lcd = BlankLcd
    /\ serial = <<>>
    /\ response = NoResponse
    /\ fired = <<>>
    /\ everValid = FALSE
    /\ sinceSensor = U32(0)
    /\ sinceLcd = U32(0)
    /\ phase = 0
    /\ assocPolls = 0
    /\ steps = 0
    /\ jumps = 0
    /\ health = "ok"
    /\ call = NoCall

\* setup() down to the sampling of wifiStart: the pins become outputs at HIGH,
\* the banner is shown for two delays and cleared, association is started
SetupBegin ==
    /\ pc = "boot"
    /\ pc' = "wifi"
    /\ fastRelay' = "HIGH"
    /\ fanRelay' = "HIGH"
    /\ lcd' = BlankLcd
    /\ millis' = Add32(millis, U32(SERIAL_DELAY_MS + WELCOME_DELAY_MS + WELCOME_DELAY_MS))
    /\ wifiStart' = millis'
    /\ wifi' \in {"DISCONNECTED", "CONNECTED"}
    /\ serial' = <<"[INFO] Connecting to WiFi">>
    /\ fired' = <<>>
    /\ UNCHANGED <<temperatureC, humidityPerc, lastSensorMillis, lastLcdMillis,
                   chargingMode, fanOn, response, everValid, sinceSensor, sinceLcd,
                   phase, assocPolls, steps, jumps, health, call>>

\* the wait loop without its time limit
MutWifiWaitingNoTimeout == wifi # "CONNECTED"

\* the condition of setup's while loop
WifiWaiting ==
    wifi # "CONNECTED" /\ LT32(Sub32(millis, wifiStart), U32(WIFI_TIMEOUT_MS))

\* one iteration of the wait loop; the network may associate during the delay
WifiWait ==
    /\ pc = "wifi"
    /\ WifiWaiting
    /\ millis' = Add32(millis, U32(WIFI_POLL_MS))
    /\ wifi' \in (IF assocPolls < MaxAssocPolls THEN {"DISCONNECTED", "CONNECTED"}
                  ELSE {"DISCONNECTED"})
    /\ assocPolls' = IF assocPolls < MaxAssocPolls THEN assocPolls + 1 ELSE assocPolls
    /\ serial' = <<".">>
    /\ fired' = <<>>
    /\ UNCHANGED <<pc, wifiStart, temperatureC, humidityPerc, lastSensorMillis,
                   lastLcdMillis, chargingMode, fanOn, fastRelay, fanRelay, lcd,
                   response, everValid, sinceSensor, sinceLcd, phase, steps, jumps,
                   health, call>>

\* what a poll that reads (h, t) makes of the history of failures
Outcome(h, t) ==
    IF isnan(h) \/ isnan(t) THEN "failing"
    ELSE IF health = "failing" THEN "recovered" ELSE "ok"

\* setup() after the wait loop: the outcome is logged, the server started, the
\* sensor read once and both timestamps taken
SetupFinish(h, t) ==
    /\ pc = "wifi"
    /\ ~WifiWaiting
    /\ LET r == readSensor(h, t)
       IN  /\ temperatureC' = r.temperatureC
           /\ humidityPerc' = r.humidityPerc
           /\ chargingMode' = r.chargingMode
           /\ fanOn' = r.fanOn
           /\ fastRelay' = r.fastRelay
           /\ fanRelay' = r.fanRelay
           /\ everValid' = r.everValid
           /\ serial' = <<IF wifi = "CONNECTED" THEN "[INFO] Connected. IP: "
                          ELSE "[WARN] WiFi connect timed out. Continuing without network.",
                          "[INFO] HTTP server started">> \o r.serial
    /\ lastSensorMillis' = millis
    /\ lastLcdMillis' = millis
    /\ sinceSensor' = U32(0)
    /\ sinceLcd' = U32(0)
    /\ phase' = 0
    /\ fired' = <<"sensor">>
    /\ health' = Outcome(h, t)
    /\ pc' = "loop"
    /\ UNCHANGED <<millis, wifiStart, wifi, lcd, response, assocPolls, steps, jumps, call>>

\* the gate written as now >= last + interval
MutIntervalDeadline(now, last, interval) == GE32(now, Add32(last, U32(interval)))
\* the gate testing the display's interval whatever interval it is given
MutIntervalLcdOnly(now, last, interval) == GE32(Sub32(now, last), U32(LCD_REFRESH_MS))
\* the gate written with >
MutIntervalStrict(now, last, interval) ==
    GE32(Sub32(now, last), U32(interval)) /\ Sub32(now, last) # U32(interval)
\* the gate that first requires the clock not to be behind the timestamp
MutIntervalNoWrap(now, last, interval) ==
    GE32(now, last) /\ GE32(Sub32(now, last), U32(interval))

\* the gate of lines 214 and 218: now - last >= interval in unsigned long
IntervalElapsed(now, last, interval) == GE32(Sub32(now, last), U32(interval))

SensorDue == IntervalElapsed(millis, lastSensorMillis, SENSOR_INTERVAL_MS)

LcdDue == IntervalElapsed(millis, lastLcdMillis, LCD_REFRESH_MS)

\* handleClient called only in the passes where no gate is open
MutActivitiesStarved(sensorDue, lcdDue) ==
    (IF sensorDue \/ lcdDue THEN <<>> ELSE <<"net">>)
        \o (IF sensorDue THEN <<"sensor">> ELSE <<>>)
        \o (IF lcdDue THEN <<"lcd">> ELSE <<>>)

\* the activities of one pass through loop(), in the order of the code
Activities(sensorDue, lcdDue) ==
    <<"net">> \o (IF sensorDue THEN <<"sensor">> ELSE <<>>)
              \o (IF lcdDue THEN <<"lcd">> ELSE <<>>)

\* the timestamp taken outside the if
MutNextStampAlways(due, now, last) == now

\* the timestamp a gate leaves behind: lines 216 and 220 are inside the ifs
NextStamp(due, now, last) == IF due THEN now ELSE last

\* the requests that can be pending at a tick, and the samples the tick can read
Pending == IF wifi = "CONNECTED" THEN Requests ELSE {"none"}

Readable == IF pc = "loop" /\ ~SensorDue THEN {<<NAN, NAN>>} ELSE Samples

\* one pass through loop() with request req pending and the sensor ready to
\* deliver (h, t)
Loop(req, h, t) ==
    /\ pc = "loop"
    /\ LET now == millis
           sensorDue == IntervalElapsed(now, lastSensorMillis, SENSOR_INTERVAL_MS)
           lcdDue == IntervalElapsed(now, lastLcdMillis, LCD_REFRESH_MS)
           r == IF sensorDue THEN readSensor(h, t) ELSE Current
           acts == Activities(sensorDue, lcdDue)
       IN  /\ response' = IF "net" \in Range(acts) THEN handleClient(req) ELSE NoResponse
           /\ temperatureC' = r.temperatureC
           /\ humidityPerc' = r.humidityPerc
           /\ chargingMode' = r.chargingMode
           /\ fanOn' = r.fanOn
           /\ fastRelay' = r.fastRelay
           /\ fanRelay' = r.fanRelay
           /\ everValid' = r.everValid
           /\ serial' = r.serial
           /\ lastSensorMillis' = NextStamp(sensorDue, now, lastSensorMillis)
           /\ sinceSensor' = IF sensorDue THEN U32(0) ELSE sinceSensor
           /\ lcd' = IF lcdDue THEN updateLCD(r) ELSE lcd
           /\ lastLcdMillis' = NextStamp(lcdDue, now, lastLcdMillis)
           /\ sinceLcd' = IF lcdDue THEN U32(0) ELSE sinceLcd
           /\ fired' = acts
           /\ health' = IF sensorDue THEN Outcome(h, t)
                        ELSE IF health = "failing" THEN "failing" ELSE "ok"
    /\ UNCHANGED <<pc, millis, wifiStart, wifi, phase, assocPolls, steps, jumps, call>>

\* d milliseconds pass between two ticks; less than one clock period passes
\* between a timestamp and the tick that tests it
Elapse(d) ==
    /\ pc = "loop"
    /\ steps < MaxSteps
    /\ ~Carry32(sinceSensor, d)
    /\ ~Carry32(sinceLcd, d)
    /\ millis' = Add32(millis, d)
    /\ sinceSensor' = Add32(sinceSensor, d)
    /\ sinceLcd' = Add32(sinceLcd, d)
    /\ phase' = (phase + Mod32(d, SENSOR_INTERVAL_MS)) % SENSOR_INTERVAL_MS
    /\ steps' = steps + 1
    /\ health' = IF health = "failing" THEN "failing" ELSE "ok"
    /\ serial' = <<>>
    /\ response' = NoResponse
    /\ fired' = <<>>
    /\ UNCHANGED <<pc, wifiStart, wifi, temperatureC, humidityPerc, lastSensorMillis,
                   lastLcdMillis, chargingMode, fanOn, fastRelay, fanRelay, lcd,
                   everValid, assocPolls, call>>

Advance == \E d \in ShortSteps : Elapse(d) /\ UNCHANGED jumps

LongAdvance == jumps < MaxJumps /\ Elapse(LongStep) /\ jumps' = jumps + 1

SetupEnd == \E s \in Readable : SetupFinish(s[1], s[2])

LoopTick == \E req \in Pending, s \in Readable : Loop(req, s[1], s[2])

Next ==
    \/ SetupBegin
    \/ WifiWait
    \/ SetupEnd
    \/ LoopTick
    \/ Advance
    \/ LongAdvance

Spec == Init /\ [][Next]_vars

\* setup() runs to its end and the core calls loop() again and again: no step
\* of setup and no pass through loop() is postponed forever
FairSpec ==
    Spec /\ WF_vars(SetupBegin) /\ WF_vars(WifiWait) /\ WF_vars(SetupEnd)
         /\ WF_vars(LoopTick)

(***************************************************************************)
(* updateRelaysAndMode on its own: called with any argument from any       *)
(* values of the four outputs it writes.                                   *)
(***************************************************************************)
Modes == {"Unknown", "Fast Charging", "Slow Charging"}

Levels == {"HIGH", "LOW"}

UnitInit ==
    /\ pc = "call"
    /\ millis = U32(0)
    /\ wifiStart = U32(0)
    /\ wifi = "IDLE"
    /\ temperatureC = NAN
    /\ humidityPerc = NAN
    /\ lastSensorMillis = U32(0)
    /\ lastLcdMillis = U32(0)
    /\ chargingMode \in Modes
    /\ fanOn \in BOOLEAN
    /\ fastRelay \in Levels
    /\ fanRelay \in Levels
    /\ lcd = BlankLcd
    /\ serial = <<>>
    /\ response = NoResponse
    /\ fired = <<>>
    /\ everValid = FALSE
    /\ sinceSensor = U32(0)
    /\ sinceLcd = U32(0)
    /\ phase = 0
    /\ assocPolls = 0
    /\ steps = 0
    /\ jumps = 0
    /\ health = "ok"
    /\ call = NoCall

Outputs == <<chargingMode, fanOn, fastRelay, fanRelay>>

CallUpdate(t) ==
    /\ pc = "call"
    /\ LET u == updateRelaysAndMode(t)
       IN  /\ chargingMode' = u.chargingMode
           /\ fanOn' = u.fanOn
           /\ fastRelay' = u.fastRelay
           /\ fanRelay' = u.fanRelay
    /\ call' = [made |-> TRUE, temp |-> t, before |-> Outputs,
                 again |-> call.made /\ call.temp = t]
    /\ UNCHANGED <<pc, millis, wifiStart, wifi, temperatureC, humidityPerc,
                   lastSensorMillis, lastLcdMillis, lcd, serial, response, fired,
                   everValid, sinceSensor, sinceLcd, phase, assocPolls, steps, jumps,
                   health>>

UnitNext == \E t \in Temps : CallUpdate(t)

UnitSpec == UnitInit /\ [][UnitNext]_vars


(***************************************************************************)
(* Properties.                                                             *)
(***************************************************************************)
ValidTemps == Temps \ {NAN}

ValidHumidities == Humidities \ {NAN}

\* the step is a pass through loop()
Tick == pc = "loop" /\ "net" \in Range(fired')

\* the latest step polled the sensor and the poll failed
PollFailed == WarnLine \in Range(serial)

\* the latest step polled the sensor and got temperature t
PollGot(t) == \E h \in ValidHumidities : SensorLine(t, h) \in Range(serial)

\* C1: a failed poll (the step that prints the warning) leaves temperatureC,
\* humidityPerc, chargingMode, fanOn and both relay outputs as they were.
C1_FailedPollKeepsState ==
    [][PollFailed' =>
          UNCHANGED <<temperatureC, humidityPerc, chargingMode, fanOn, fastRelay,
                      fanRelay>>]_vars

\* a poll in loop() has failed while a slow-charging state with the fan on was held
C1_Witness ==
    /\ pc = "loop"
    /\ "net" \in Range(fired)
    /\ PollFailed
    /\ chargingMode = "Slow Charging"
    /\ fanOn
    /\ temperatureC = F(3500)

\* C2: after a poll that got a valid temperature t the mode is Slow Charging
\* if t >= SLOW_CHARGE_TEMP and Fast Charging if t < SLOW_CHARGE_TEMP.
C2_ModeFollowsThreshold ==
    \A t \in ValidTemps :
        PollGot(t) =>
            chargingMode = IF t.v >= SLOW_CHARGE_TEMP THEN "Slow Charging"
                           ELSE "Fast Charging"

\* a poll got exactly SLOW_CHARGE_TEMP and the mode is Slow Charging
C2_Witness == PollGot(F(SLOW_CHARGE_TEMP)) /\ chargingMode = "Slow Charging"

\* C3: after a poll that got a valid temperature t, fanOn is TRUE if
\* t >= FAN_ON_TEMP and FALSE if t < FAN_ON_TEMP.
C3_FanFollowsThreshold ==
    \A t \in ValidTemps : PollGot(t) => (fanOn <=> t.v >= FAN_ON_TEMP)

\* a poll got exactly FAN_ON_TEMP and the fan is on
C3_Witness == PollGot(F(FAN_ON_TEMP)) /\ fanOn

\* C4 as claimed: updateRelaysAndMode(NaN) returns with chargingMode, fanOn
\* and both relay outputs as they were before the call.
C4_NanKeepsPrevious == (call.made /\ isnan(call.temp)) => Outputs = call.before

\* C4 amended: updateRelaysAndMode(NaN) ends with Fast Charging, the fan flag
\* off and both relay outputs HIGH, whatever the state before the call.
C4_NanForcesFastFanOff ==
    (call.made /\ isnan(call.temp)) => Outputs = <<"Fast Charging", FALSE, "HIGH", "HIGH">>

\* updateRelaysAndMode(NaN) was called in a slow-charging state with the fan on
C4_Witness ==
    /\ call.made
    /\ isnan(call.temp)
    /\ call.before = <<"Slow Charging", TRUE, "LOW", "LOW">>

\* C5 as claimed, and only for runs without the long clock advance: the
\* pipeline fires in loop() only at multiples of SENSOR_INTERVAL_MS of true
\* time counted from the start of the schedule.
C5_FiresOnGrid == (pc = "loop" /\ "sensor" \in Range(fired) /\ jumps = 0) => phase = 0

\* C5 amended: a tick polls the sensor exactly when at least
\* SENSOR_INTERVAL_MS of true time have passed since lastSensorMillis was
\* taken, and then takes the tick's clock value as the new lastSensorMillis.
C5_FiresWhenIntervalElapsed ==
    [][Tick =>
          /\ (serial' # <<>>) <=> GE32(sinceSensor, U32(SENSOR_INTERVAL_MS))
          /\ (serial' # <<>>) => (lastSensorMillis' = millis /\ "sensor" \in Range(fired'))
          /\ (serial' = <<>>) => (lastSensorMillis' = lastSensorMillis
                                  /\ "sensor" \notin Range(fired'))]_vars

\* a tick has polled the sensor off the grid, later than one interval after
\* the previous poll
C5_Witness ==
    /\ pc = "loop"
    /\ "sensor" \in Range(fired)
    /\ serial # <<>>
    /\ jumps = 0
    /\ phase # 0

\* timestamps and elapsed times at the edges of the intervals and of the clock
HalfPeriod == [hi |-> Limb \div 2, lo |-> 0]

GateLasts ==
    {U32(0), U32(1), U32(1999), U32(2000), HalfPeriod, Sub32(HalfPeriod, U32(1)),
     Sub32(U32(0), U32(2000)), Sub32(U32(0), U32(1500)), Sub32(U32(0), U32(1))}

GateElapsed ==
    {U32(0), U32(1), U32(1499), U32(1500), U32(1501), U32(1999), U32(2000), U32(2001),
     HalfPeriod, Sub32(U32(0), U32(2000)), Sub32(U32(0), U32(1))}

\* the gate test at now = (L + e) mod 2^32 agrees with e >= interval
GateTable ==
    \A L \in GateLasts, e \in GateElapsed, iv \in {SENSOR_INTERVAL_MS, LCD_REFRESH_MS} :
        IntervalElapsed(Add32(L, e), L, iv) <=> GE32(e, U32(iv))

\* C6: each gate is open exactly when the true time e since its timestamp L
\* is at least its interval, also when the clock has wrapped since: at every
\* point where a tick can test the gates, and for the timestamps and elapsed
\* times of GateLasts and GateElapsed.
C6_GateMatchesElapsed ==
    /\ pc = "loop" =>
          /\ SensorDue <=> GE32(sinceSensor, U32(SENSOR_INTERVAL_MS))
          /\ LcdDue <=> GE32(sinceLcd, U32(LCD_REFRESH_MS))
          /\ Sub32(millis, lastSensorMillis) = sinceSensor
          /\ Sub32(millis, lastLcdMillis) = sinceLcd
    /\ GateTable

\* the clock has wrapped since both timestamps, the sensor gate is still
\* closed and the display gate is open
C6_Witness ==
    /\ pc = "loop"
    /\ LT32(millis, lastSensorMillis)
    /\ LT32(millis, lastLcdMillis)
    /\ ~SensorDue
    /\ LcdDue

SentinelBody ==
    <<"temperature_C", "-999.00", "humidity_percent", "-999.00",
      "charging_mode", "Unknown", "fan_on", "false">>

\* C7: a status response sent while no poll has yet succeeded is the
\* sentinel record; one sent after a poll has succeeded carries neither the
\* sentinel temperature nor the mode "Unknown".
C7_SentinelUntilFirstReading ==
    [][(Tick /\ response'.code = 200) =>
          IF ~everValid
          THEN response'.body = SentinelBody
          ELSE /\ JsonField(response'.body, "temperature_C") # "-999.00"
               /\ JsonField(response'.body, "charging_mode") # "Unknown"]_vars

\* a status response was sent in a tick whose poll failed, no poll having
\* succeeded so far
C7_Witness ==
    /\ pc = "loop"
    /\ response.code = 200
    /\ PollFailed
    /\ ~everValid

\* C8 as claimed: every status response carries the mode Fast Charging or
\* Slow Charging.
C8_ModeIsFastOrSlow ==
    response.code = 200 =>
        JsonField(response.body, "charging_mode") \in {"Fast Charging", "Slow Charging"}

\* C8 amended: a status response carries the chargingMode of the moment,
\* which is Fast Charging or Slow Charging once a poll has succeeded and
\* "Unknown" until then.
C8_ModeIsFastOrSlowAfterReading ==
    [][(Tick /\ response'.code = 200) =>
          /\ JsonField(response'.body, "charging_mode") = chargingMode
          /\ chargingMode \in (IF everValid THEN {"Fast Charging", "Slow Charging"}
                               ELSE {"Unknown"})]_vars

\* a status response has carried Slow Charging
C8_Witness ==
    /\ pc = "loop"
    /\ response.code = 200
    /\ JsonField(response.body, "charging_mode") = "Slow Charging"

\* C9: whenever a valid reading is stored, fanOn and chargingMode are the ones
\* derived from it, and a status response that carries a reading carries the
\* fan flag and the mode derived from that same reading.
C9_StateFromOneReading ==
    /\ ~isnan(temperatureC) =>
          /\ fanOn <=> temperatureC.v >= FAN_ON_TEMP
          /\ chargingMode = "Slow Charging" <=> temperatureC.v >= SLOW_CHARGE_TEMP
          /\ chargingMode \in {"Slow Charging", "Fast Charging"}
    /\ (response.code = 200 /\ response.body # SentinelBody) =>
          \E t \in ValidTemps :
              /\ JsonField(response.body, "temperature_C") = Fmt2(t.v)
              /\ JsonField(response.body, "fan_on") =
                     IF t.v >= FAN_ON_TEMP THEN "true" ELSE "false"
              /\ JsonField(response.body, "charging_mode") =
                     IF t.v >= SLOW_CHARGE_TEMP THEN "Slow Charging" ELSE "Fast Charging"

\* a status response reports 32.00 with the fan on, sent in a tick whose poll
\* then got 35.00
C9_Witness ==
    /\ pc = "loop"
    /\ response.code = 200
    /\ JsonField(response.body, "temperature_C") = "32.00"
    /\ JsonField(response.body, "fan_on") = "true"
    /\ PollGot(F(3500))

\* C10 as claimed: once a reading is valid, FAST_RELAY_PIN is LOW exactly when
\* the mode is Fast Charging and HIGH exactly when it is Slow Charging.
C10_FastRelayLowIffFast ==
    everValid =>
        /\ fastRelay = "LOW" <=> chargingMode = "Fast Charging"
        /\ fastRelay = "HIGH" <=> chargingMode = "Slow Charging"


\* the step is a pass through loop(), told from the clock: it leaves the count
\* of clock advances alone
LoopStep == pc = "loop" /\ steps' = steps

\* C11: every pass through loop() runs the network service exactly once and
\* first, before either gate and whether or not a gate fires; a status
\* response sent in the pass is the one of the state before the pass.
C11_NetworkServedEveryTick ==
    [][LoopStep =>
          /\ Len(fired') >= 1
          /\ fired'[1] = "net"
          /\ \A i \in 2..Len(fired') : fired'[i] # "net"
          /\ (wifi = "CONNECTED" /\ response'.code = 200) => response' = handleStatus]_vars

\* a pass in which both gates fired served a status request first: the
\* response carries 31.90, the poll of the same pass got 35.00
C11_Witness ==
    /\ pc = "loop"
    /\ fired = <<"net", "sensor", "lcd">>
    /\ response.code = 200
    /\ JsonField(response.body, "temperature_C") = "31.90"
    /\ PollGot(F(3500))


\* the outputs the code derives from a valid temperature t
Derived(t) ==
    <<IF t.v >= SLOW_CHARGE_TEMP THEN "Slow Charging" ELSE "Fast Charging",
      t.v >= FAN_ON_TEMP,
      IF t.v >= SLOW_CHARGE_TEMP THEN "LOW" ELSE "HIGH",
      IF t.v >= FAN_ON_TEMP THEN "LOW" ELSE "HIGH">>

\* the latest step polled the sensor
PollAttempt == PollFailed \/ \E t \in ValidTemps : PollGot(t)

\* C12: setup always reaches loop(); the wait for the network never lasts
\* longer than WIFI_TIMEOUT_MS; setup leaves the wait only associated or at
\* the timeout, and then polls the sensor; without the network a pass through
\* loop() still polls and drives the relays from the temperature it got.
C12_BoundedWaitThenControl ==
    /\ <>(pc = "loop")
    /\ [](pc = "wifi" => GE32(U32(WIFI_TIMEOUT_MS), Sub32(millis, wifiStart)))
    /\ [][(pc = "wifi" /\ pc' = "loop") =>
             /\ wifi = "CONNECTED" \/ Sub32(millis, wifiStart) = U32(WIFI_TIMEOUT_MS)
             /\ PollAttempt']_vars
    /\ [](pc = "loop" /\ wifi # "CONNECTED" =>
             \A t \in ValidTemps : PollGot(t) => Outputs = Derived(t))

\* the network never associated, and a pass through loop() got 35.00 and
\* drove both relays
C12_Witness ==
    /\ pc = "loop"
    /\ wifi = "DISCONNECTED"
    /\ fired = <<"net", "sensor", "lcd">>
    /\ PollGot(F(3500))
    /\ fastRelay = "LOW"
    /\ fanRelay = "LOW"


\* C13: a call of updateRelaysAndMode with the valid temperature of the call
\* before it leaves chargingMode, fanOn and both relay outputs as that call
\* left them.
C13_UpdateIdempotent == (call.again /\ ~isnan(call.temp)) => Outputs = call.before

\* updateRelaysAndMode(35.00) was called twice in a row
C13_Witness ==
    /\ call.again
    /\ call.temp = F(3500)
    /\ Outputs = <<"Slow Charging", TRUE, "LOW", "LOW">>

\* C14: after a call of updateRelaysAndMode with a valid temperature t the
\* four outputs are the ones the thresholds give for t, whatever they were
\* before the call: there is no hysteresis.
C14_OutputsDependOnTemperatureOnly ==
    (call.made /\ ~isnan(call.temp)) => Outputs = Derived(call.temp)

\* called with 34.99 while slow charging, it went back to fast charging
C14_Witness ==
    /\ call.made
    /\ call.temp = F(3499)
    /\ call.before = <<"Slow Charging", TRUE, "LOW", "LOW">>
    /\ chargingMode = "Fast Charging"


\* C15: in a pass through loop() each timestamp becomes the clock value the
\* pass sampled exactly when its gate fires and is left alone otherwise; a
\* pass in which neither gate fires leaves both timestamps, chargingMode,
\* fanOn, the stored reading and both relay outputs unchanged.
C15_ScheduleChangesOnlyOnFire ==
    [][LoopStep =>
          /\ ("sensor" \in Range(fired')) <=> SensorDue
          /\ ("lcd" \in Range(fired')) <=> LcdDue
          /\ lastSensorMillis' =
                 IF "sensor" \in Range(fired') THEN millis ELSE lastSensorMillis
          /\ lastLcdMillis' = IF "lcd" \in Range(fired') THEN millis ELSE lastLcdMillis
          /\ fired' = <<"net">> =>
                 UNCHANGED <<lastSensorMillis, lastLcdMillis, chargingMode, fanOn,
                             temperatureC, humidityPerc, fastRelay, fanRelay>>]_vars

\* a pass fired the display gate alone: the display timestamp is the clock
\* value of the pass, the sensor timestamp is an older one
C15_Witness ==
    /\ pc = "loop"
    /\ fired = <<"net", "lcd">>
    /\ everValid
    /\ lastLcdMillis = millis
    /\ lastSensorMillis # millis


C17_SlowOnlyWithFan == chargingMode = "Slow Charging" => fanOn

\* a pass through loop() that polls nothing, in slow charging with the fan on
C17_Witness ==
    /\ pc = "loop"
    /\ fired = <<"net">>
    /\ chargingMode = "Slow Charging"
    /\ fanOn
    /\ fanRelay = "LOW"

\* C18: once setup has initialised the pins, FAN_RELAY_PIN is LOW exactly when
\* fanOn is TRUE and HIGH exactly when fanOn is FALSE.
C18_FanRelayAgreesWithFlag ==
    pc # "boot" => /\ fanRelay = "LOW" <=> fanOn
                   /\ fanRelay = "HIGH" <=> ~fanOn

\* a poll got FAN_ON_TEMP: the fan relay is LOW, the flag set, the mode fast
C18_Witness ==
    /\ pc = "loop"
    /\ PollGot(F(FAN_ON_TEMP))
    /\ fanRelay = "LOW"
    /\ fanOn
    /\ chargingMode = "Fast Charging"


\* the latest poll failed
LastPollFailed == health = "failing"

\* the sensor pipeline is owed a run: at least SENSOR_INTERVAL_MS of true time
\* (and less than one clock period) has passed since its timestamp was taken
Owed == pc = "loop" /\ GE32(sinceSensor, U32(SENSOR_INTERVAL_MS))

\* C19: the sensor pipeline does not stay owed a run forever, and every pass
\* through loop() made while it is owed one runs it, so that the pipeline
\* fires again and again for as long as the clock advances; and the poll that
\* ends a run of failed polls by delivering temperature t stores t and leaves
\* the mode, the fan flag and both relay outputs derived from t in that same
\* pass.
C19_NeverStarvedAndSelfCorrecting ==
    /\ []<>~Owed
    /\ [][(LoopStep /\ Owed) =>
            ("sensor" \in Range(fired') /\ sinceSensor' = U32(0))]_vars
    /\ [][\A t \in ValidTemps :
            (LastPollFailed /\ PollGot(t)') =>
                /\ temperatureC' = t
                /\ Outputs' = Derived(t)
                /\ "sensor" \in Range(fired')]_vars

\* a poll made after the clock wrapped got 35.00, and the poll before it failed
C19_Witness ==
    /\ pc = "loop"
    /\ health = "recovered"
    /\ jumps = 1
    /\ LT32(millis, wifiStart)
    /\ PollGot(F(SLOW_CHARGE_TEMP))
    /\ Outputs = <<"Slow Charging", TRUE, "LOW", "LOW">>


====
